---- MODULE Spec2Model ----
(***************************************************************************)
(* Model of the graph store of the subreddit crawler                       *)
(* (src/src/database/database.ts) and of the frontier built on top of it.  *)
(*                                                                         *)
(* A name is a sequence of one-character strings.  A table is the sequence *)
(* (nodes: the index of a row is its AUTOINCREMENT id, rows are never      *)
(* deleted) or the bag (edges, multis) of its rows, so that the UNIQUE and *)
(* PRIMARY KEY constraints are something the statements have to keep.      *)
(***************************************************************************)
EXTENDS Naturals, Sequences, FiniteSets, Bags, TLC

VARIABLES nodes, edges, multis, now, tieOrder, rejected, gen, pulled, run, fn

vars == <<nodes, edges, multis, now, tieOrder, rejected, gen, pulled, run, fn>>

----------------------------------------------------------------------------
(* Bounds *)

MaxNodes == 2
MaxEdges == 2
MaxTick == 1
MaxBatch == 2
MaxLen == 5
MaxYield == 3
MaxLinks == 1
MaxSnap == 4
MaxSnapEdges == 3

----------------------------------------------------------------------------
(* Names and their normalisation *)

Alphabet == {"r", "R", "/", "a"}

\* the names the callers of the store pass in: empty, a bare prefix, upper
\* case, prefixed, prefixed twice
Names ==
  { <<>>, <<"r", "/">>, <<"A">>, <<"r", "/", "a">>, <<"r", "/", "r", "/", "a">> }

\* the names the frontier is fed
FrontierNames == Names \cup { <<"b">> }

\* the names of a batch
BatchNames == { <<>>, <<"A">>, <<"r", "/", "r", "/", "a">> }

\* every name over Alphabet of at most n characters
RECURSIVE NamesUpTo(_)
NamesUpTo(n) ==
  IF n = 0 THEN { <<>> }
  ELSE LET shorter == NamesUpTo(n - 1)
       IN shorter \cup { Append(s, c) : s \in { t \in shorter : Len(t) = n - 1 }, c \in Alphabet }

LowerChar(c) ==
  CASE c = "R" -> "r"
    [] c = "A" -> "a"
    [] c = "B" -> "b"
    [] c = "M" -> "m"
    [] OTHER -> c

\* String.prototype.toLowerCase
toLowerCase(s) == [i \in 1..Len(s) |-> LowerChar(s[i])]

\* s.replace(/^r\//, ""): one match at the start of the string is removed
StripPrefix(s) ==
  IF Len(s) >= 2 /\ s[1] = "r" /\ s[2] = "/" THEN SubSeq(s, 3, Len(s)) ELSE s

\* subreddit.toLowerCase().replace(/^r\//, "")
Normalize(s) == StripPrefix(toLowerCase(s))

\* JavaScript truthiness of a string
Truthy(s) == Len(s) > 0

----------------------------------------------------------------------------
(* Rows *)

NULL == <<>>

Some(v) == <<v>>

NewNode(id, name, t) ==
  [id |-> id, subreddit |-> name, visited |-> FALSE,
   subscribers |-> NULL, nsfw |-> NULL, added_at |-> t]

NodeIds(ns) == 1..Len(ns)

\* SELECT id FROM subreddit_queue WHERE subreddit = ?  (0: no row)
SelectId(ns, name) ==
  IF \E i \in NodeIds(ns) : ns[i].subreddit = name
  THEN CHOOSE i \in NodeIds(ns) : ns[i].subreddit = name
  ELSE 0

\* faulty variant: INSERT OR REPLACE, the row of the name is written anew
InsertOrReplaceNode(ns, name, t) ==
  IF SelectId(ns, name) # 0
  THEN [ns EXCEPT ![SelectId(ns, name)] = NewNode(SelectId(ns, name), name, t)]
  ELSE Append(ns, NewNode(Len(ns) + 1, name, t))

\* INSERT OR IGNORE INTO subreddit_queue (subreddit, visited) VALUES (?, FALSE)
\* subreddit is UNIQUE: a name that has a row is ignored
InsertOrIgnoreNode(ns, name, t) ==
  IF SelectId(ns, name) # 0 THEN ns
  ELSE Append(ns, NewNode(Len(ns) + 1, name, t))

----------------------------------------------------------------------------
(* Operations of the store.  Each returns the tables it leaves behind,     *)
(* the value it resolves to and whether it rejected (err).                 *)

addToQueue(ns, subreddit, t) ==
  LET normalizedSubreddit == Normalize(subreddit)
      after == InsertOrIgnoreNode(ns, normalizedSubreddit, t)
  IN [nodes |-> after, ret |-> SelectId(after, normalizedSubreddit)]

\* faulty variant: a missing row gives id 0 instead of an error
getSubredditId_Silent(ns, sub) ==
  [err |-> FALSE, id |-> SelectId(ns, Normalize(sub))]

\* SELECT id ... WHERE subreddit = ?; row.id of an undefined row throws,
\* and assert(row.id) holds of every id there is
getSubredditId(ns, sub) ==
  LET id == SelectId(ns, Normalize(sub))
  IN [err |-> id = 0, id |-> id]

EdgeRow(fromId, toId) == [from_id |-> fromId, to_id |-> toId]

\* faulty variant: no UNIQUE(from_id, to_id)
InsertOrIgnoreEdge_NoUnique(ns, es, fromId, toId) ==
  IF fromId \in NodeIds(ns) /\ toId \in NodeIds(ns)
  THEN [edges |-> es (+) SetToBag({EdgeRow(fromId, toId)}), err |-> FALSE]
  ELSE [edges |-> es, err |-> TRUE]

\* faulty variant: PRAGMA foreign_keys off
InsertOrIgnoreEdge_NoForeignKey(ns, es, fromId, toId) ==
  IF BagIn(EdgeRow(fromId, toId), es)
  THEN [edges |-> es, err |-> FALSE]
  ELSE [edges |-> es (+) SetToBag({EdgeRow(fromId, toId)}), err |-> FALSE]

\* INSERT OR IGNORE INTO subreddit_edges (from_id, to_id) VALUES (?, ?)
\* UNIQUE(from_id, to_id) ignores the row; OR IGNORE does not cover the
\* foreign keys (PRAGMA foreign_keys = ON), whose violation is an error
InsertOrIgnoreEdge(ns, es, fromId, toId) ==
  IF BagIn(EdgeRow(fromId, toId), es)
  THEN [edges |-> es, err |-> FALSE]
  ELSE IF fromId \in NodeIds(ns) /\ toId \in NodeIds(ns)
       THEN [edges |-> es (+) SetToBag({EdgeRow(fromId, toId)}), err |-> FALSE]
       ELSE [edges |-> es, err |-> TRUE]

\* if (!fromId || !toId || fromId === toId) return;
addEdgeById(ns, es, fromId, toId) ==
  IF fromId = 0 \/ toId = 0 \/ fromId = toId
  THEN [edges |-> es, err |-> FALSE]
  ELSE InsertOrIgnoreEdge(ns, es, fromId, toId)

addEdge(ns, es, from, to) ==
  LET fromId == getSubredditId(ns, from)
      toId == getSubredditId(ns, to)
  IN IF fromId.err \/ toId.err
     THEN [edges |-> es, err |-> TRUE]
     ELSE addEdgeById(ns, es, fromId.id, toId.id)

\* faulty variant: no "if (!subreddit) return"
updateMeta_NoEmptyCheck(ns, subreddit, nsfw, subscribers) ==
  [i \in NodeIds(ns) |->
     IF ns[i].subreddit = Normalize(subreddit)
     THEN [ns[i] EXCEPT !.nsfw = Some(nsfw), !.subscribers = Some(subscribers)]
     ELSE ns[i]]

\* faulty variant: UPDATE subreddit_queue SET nsfw = ? WHERE subreddit = ?
updateMeta_NsfwOnly(ns, subreddit, nsfw, subscribers) ==
  IF ~Truthy(subreddit) THEN ns
  ELSE [i \in NodeIds(ns) |->
          IF ns[i].subreddit = Normalize(subreddit)
          THEN [ns[i] EXCEPT !.nsfw = Some(nsfw)]
          ELSE ns[i]]

\* UPDATE subreddit_queue SET nsfw = ?, subscribers = ? WHERE subreddit = ?
updateMeta(ns, subreddit, nsfw, subscribers) ==
  IF ~Truthy(subreddit) THEN ns
  ELSE LET normalizedSubreddit == Normalize(subreddit)
       IN [i \in NodeIds(ns) |->
             IF ns[i].subreddit = normalizedSubreddit
             THEN [ns[i] EXCEPT !.nsfw = Some(nsfw), !.subscribers = Some(subscribers)]
             ELSE ns[i]]

\* faulty variant: SET visited = NOT visited
markVisited_Toggle(ns, subreddit) ==
  IF ~Truthy(subreddit) THEN ns
  ELSE [i \in NodeIds(ns) |->
          IF ns[i].subreddit = Normalize(subreddit)
          THEN [ns[i] EXCEPT !.visited = ~@]
          ELSE ns[i]]

\* faulty variant: DELETE FROM subreddit_queue WHERE subreddit = ?
markVisited_Delete(ns, subreddit) ==
  IF ~Truthy(subreddit) THEN ns
  ELSE SelectSeq(ns, LAMBDA row : row.subreddit # Normalize(subreddit))

\* UPDATE subreddit_queue SET visited = TRUE WHERE subreddit = ?
markVisited(ns, subreddit) ==
  IF ~Truthy(subreddit) THEN ns
  ELSE LET normalizedSubreddit == Normalize(subreddit)
       IN [i \in NodeIds(ns) |->
             IF ns[i].subreddit = normalizedSubreddit
             THEN [ns[i] EXCEPT !.visited = TRUE]
             ELSE ns[i]]

\* the loop of addMultipleToQueue: falsy names are skipped
RECURSIVE addMultipleToQueue(_, _, _)
addMultipleToQueue(ns, subreddits, t) ==
  IF subreddits = <<>> THEN [nodes |-> ns, ret |-> <<>>]
  ELSE IF ~Truthy(Head(subreddits)) THEN addMultipleToQueue(ns, Tail(subreddits), t)
  ELSE LET first == addToQueue(ns, Head(subreddits), t)
           rest == addMultipleToQueue(first.nodes, Tail(subreddits), t)
       IN [nodes |-> rest.nodes, ret |-> <<first.ret>> \o rest.ret]

\* SELECT COUNT(*) as count FROM subreddit_queue WHERE visited = FALSE
getUnvisitedCount(ns) == Cardinality({i \in NodeIds(ns) : ~ns[i].visited})

MultiRow(multiName, subredditName) ==
  [multi_name |-> multiName, subreddit_name |-> subredditName]

\* faulty variant: no PRIMARY KEY (multi_name, subreddit_name)
setMulti_Insert(ms, multiName, subredditName) ==
  IF ~Truthy(multiName) \/ ~Truthy(subredditName) THEN ms
  ELSE ms (+) SetToBag({MultiRow(toLowerCase(multiName), Normalize(subredditName))})

\* INSERT OR REPLACE INTO multis (multi_name, subreddit_name) VALUES (?, ?)
\* PRIMARY KEY (multi_name, subreddit_name): the row of the pair is replaced
setMulti(ms, multiName, subredditName) ==
  IF ~Truthy(multiName) \/ ~Truthy(subredditName) THEN ms
  ELSE LET row == MultiRow(toLowerCase(multiName), Normalize(subredditName))
           others == [r \in (DOMAIN ms) \ {row} |-> ms[r]]
       IN others (+) SetToBag({row})

\* faulty variant: ... and visited = FALSE
listIncomplete_UnvisitedOnly(ns) ==
  { ns[i].subreddit : i \in { j \in NodeIds(ns) :
      (ns[j].nsfw = NULL \/ ns[j].subscribers = NULL) /\ ~ns[j].visited } }

\* select subreddit from subreddit_queue
\*   where nsfw is null or subscribers is null
\* the statement has no ORDER BY: the rows are a set of names
listIncomplete(ns) ==
  { ns[i].subreddit : i \in { j \in NodeIds(ns) :
      ns[j].nsfw = NULL \/ ns[j].subscribers = NULL } }

\* SELECT subreddit FROM subreddit_queue WHERE visited = FALSE
\*   ORDER BY added_at LIMIT 1
\* added_at has the resolution of one tick; among rows of the same tick the
\* statement leaves the order to the engine (tieOrder, see Init)
FirstBy(ns, order, rows) ==
  CHOOSE i \in rows : \A j \in rows \ {i} :
     \/ ns[i].added_at < ns[j].added_at
     \/ ns[i].added_at = ns[j].added_at /\ order[i] < order[j]

\* faulty variant: no WHERE visited = FALSE
getNextUnvisited_NoFilter(ns, order) ==
  IF NodeIds(ns) = {} THEN [found |-> FALSE, subreddit |-> <<>>]
  ELSE [found |-> TRUE, subreddit |-> ns[FirstBy(ns, order, NodeIds(ns))].subreddit]

getNextUnvisited(ns, order) ==
  LET rows == {i \in NodeIds(ns) : ~ns[i].visited}
  IN IF rows = {} THEN [found |-> FALSE, subreddit |-> <<>>]
     ELSE [found |-> TRUE, subreddit |-> ns[FirstBy(ns, order, rows)].subreddit]

\* one step of getUnvisitedGenerator: the pull runs the loop up to the next
\* yield; a null or empty name ends the sequence
getUnvisitedGenerator(ns, order) ==
  LET subreddit == getNextUnvisited(ns, order)
  IN IF ~subreddit.found \/ ~Truthy(subreddit.subreddit)
     THEN [done |-> TRUE, value |-> <<>>]
     ELSE [done |-> FALSE, value |-> subreddit.subreddit]

----------------------------------------------------------------------------
(* State *)

NoPull == [set |-> FALSE, subreddit |-> <<>>]

NoGen == [pc |-> "none", value |-> <<>>]

NoRun == [pc |-> "idle", yielded |-> <<>>, count |-> 0]

NoFn == [pc |-> "idle", input |-> <<>>, once |-> <<>>, twice |-> <<>>]

InitStore ==
  /\ nodes = <<>>
  /\ edges = EmptyBag
  /\ multis = EmptyBag
  /\ now = 0
  /\ rejected = FALSE
  /\ gen = NoGen
  /\ pulled = NoPull
  /\ run = NoRun
  /\ fn = NoFn

\* the store alone: rows of one tick, the engine's order never consulted
Init ==
  /\ InitStore
  /\ tieOrder = [i \in 1..MaxNodes |-> i]

----------------------------------------------------------------------------
(* Actions: one call of an operation of the store *)

Call_addToQueue(N) ==
  \E subreddit \in N :
    LET r == addToQueue(nodes, subreddit, now)
    IN /\ Len(r.nodes) <= MaxNodes
       /\ nodes' = r.nodes
       /\ rejected' = FALSE
       /\ UNCHANGED <<edges, multis, now, tieOrder, gen, pulled, run, fn>>

\* the caller passes a list without repetitions: Array.from(new Set([...subs]))
Batches(N) ==
  { b \in UNION { [1..n -> N] : n \in 0..MaxBatch } :
      \A i, j \in DOMAIN b : b[i] = b[j] => i = j }

Call_addMultipleToQueue(N) ==
  \E subreddits \in Batches(N) :
    LET r == addMultipleToQueue(nodes, subreddits, now)
    IN /\ Len(r.nodes) <= MaxNodes
       /\ nodes' = r.nodes
       /\ rejected' = FALSE
       /\ UNCHANGED <<edges, multis, now, tieOrder, gen, pulled, run, fn>>

Call_addEdge ==
  \E from \in Names, to \in Names :
    LET r == addEdge(nodes, edges, from, to)
    IN /\ BagCardinality(r.edges) <= MaxEdges
       /\ edges' = r.edges
       /\ rejected' = r.err
       /\ UNCHANGED <<nodes, multis, now, tieOrder, gen, pulled, run, fn>>

Call_addEdgeById ==
  \E fromId \in 0..MaxNodes, toId \in 0..MaxNodes :
    LET r == addEdgeById(nodes, edges, fromId, toId)
    IN /\ BagCardinality(r.edges) <= MaxEdges
       /\ edges' = r.edges
       /\ rejected' = r.err
       /\ UNCHANGED <<nodes, multis, now, tieOrder, gen, pulled, run, fn>>

MetaNsfw == {TRUE}

MetaSubscribers == {7}

Call_updateMeta ==
  \E subreddit \in Names, nsfw \in MetaNsfw, subscribers \in MetaSubscribers :
    /\ nodes' = updateMeta(nodes, subreddit, nsfw, subscribers)
    /\ rejected' = FALSE
    /\ UNCHANGED <<edges, multis, now, tieOrder, gen, pulled, run, fn>>

Call_markVisited(N) ==
  \E subreddit \in N :
    /\ nodes' = markVisited(nodes, subreddit)
    /\ rejected' = FALSE
    /\ UNCHANGED <<edges, multis, now, tieOrder, gen, pulled, run, fn>>

MultiNames == { <<>>, <<"M">> }

MultiMembers == { <<>>, <<"A">>, <<"r", "/", "a">> }

Call_setMulti(G, S) ==
  \E multiName \in G, subredditName \in S :
    /\ multis' = setMulti(multis, multiName, subredditName)
    /\ rejected' = FALSE
    /\ UNCHANGED <<nodes, edges, now, tieOrder, gen, pulled, run, fn>>

Next ==
  \/ Call_addToQueue(Names)
  \/ Call_addMultipleToQueue(BatchNames)
  \/ Call_addEdge
  \/ Call_addEdgeById
  \/ Call_updateMeta
  \/ Call_markVisited(Names)
  \/ Call_setMulti(MultiNames, MultiMembers)

Spec == Init /\ [][Next]_vars

----------------------------------------------------------------------------
(* The multis table alone: several groups, several members *)

GroupNames == { <<>>, <<"M">>, <<"m">>, <<"n">>, <<"o">> }

MemberNames ==
  { <<>>, <<"A">>, <<"r", "/", "a">>, <<"b">>, <<"r", "/", "r", "/", "a">> }

NextMulti == Call_setMulti(GroupNames, MemberNames)

SpecMulti == Init /\ [][NextMulti]_vars

----------------------------------------------------------------------------
(* The frontier: the clock of added_at, the generator and its consumer *)

\* CURRENT_TIMESTAMP moves on
Tick ==
  /\ now < MaxTick
  /\ now' = now + 1
  /\ UNCHANGED <<nodes, edges, multis, tieOrder, rejected, gen, pulled, run, fn>>

\* db.getUnvisitedGenerator(): a fresh sequence, nothing fetched yet
Call_getUnvisitedGenerator ==
  /\ gen' = [pc |-> "start", value |-> <<>>]
  /\ UNCHANGED <<nodes, edges, multis, now, tieOrder, rejected, pulled, run, fn>>

\* the consumer pulls the next item of the sequence
Call_next ==
  /\ gen.pc \in {"start", "suspended"}
  /\ LET r == getUnvisitedGenerator(nodes, tieOrder)
     IN IF r.done
        THEN /\ gen' = [pc |-> "done", value |-> <<>>]
             /\ UNCHANGED pulled
        ELSE /\ gen' = [pc |-> "suspended", value |-> r.value]
             /\ pulled' = [set |-> TRUE, subreddit |-> r.value]
  /\ UNCHANGED <<nodes, edges, multis, now, tieOrder, rejected, run, fn>>

InitFrontier ==
  /\ InitStore
  /\ tieOrder \in Permutations(1..MaxNodes)

NextFrontier ==
  \/ Call_addToQueue(FrontierNames)
  \/ Call_markVisited(FrontierNames)
  \/ Tick
  \/ Call_getUnvisitedGenerator
  \/ Call_next

SpecFrontier == InitFrontier /\ [][NextFrontier]_vars

----------------------------------------------------------------------------
(* Draining: seed the store, then pull from one sequence and mark every    *)
(* item visited right after it was yielded, then count what is left        *)

InitDrain ==
  /\ nodes = <<>>
  /\ edges = EmptyBag
  /\ multis = EmptyBag
  /\ now = 0
  /\ tieOrder \in Permutations(1..MaxNodes)
  /\ rejected = FALSE
  /\ gen = NoGen
  /\ pulled = NoPull
  /\ run = [pc |-> "seed", yielded |-> <<>>, count |-> 0]
  /\ fn = NoFn

Drain_Seed ==
  /\ run.pc = "seed"
  /\ \/ Call_addToQueue(FrontierNames)
     \/ Call_addMultipleToQueue(BatchNames \cup { <<"b">> })
     \/ Tick

Drain_Start ==
  /\ run.pc = "seed"
  /\ nodes # <<>>
  /\ gen' = [pc |-> "start", value |-> <<>>]
  /\ run' = [run EXCEPT !.pc = "pull"]
  /\ UNCHANGED <<nodes, edges, multis, now, tieOrder, rejected, pulled, fn>>

Drain_Pull ==
  /\ run.pc = "pull"
  /\ Len(run.yielded) < MaxYield
  /\ LET r == getUnvisitedGenerator(nodes, tieOrder)
     IN IF r.done
        THEN /\ gen' = [pc |-> "done", value |-> <<>>]
             /\ run' = [run EXCEPT !.pc = "count"]
             /\ UNCHANGED pulled
        ELSE /\ gen' = [pc |-> "suspended", value |-> r.value]
             /\ pulled' = [set |-> TRUE, subreddit |-> r.value]
             /\ run' = [run EXCEPT !.pc = "mark", !.yielded = Append(@, r.value)]
  /\ UNCHANGED <<nodes, edges, multis, now, tieOrder, rejected, fn>>

Drain_Mark ==
  /\ run.pc = "mark"
  /\ nodes' = markVisited(nodes, gen.value)
  /\ run' = [run EXCEPT !.pc = "pull"]
  /\ UNCHANGED <<edges, multis, now, tieOrder, rejected, gen, pulled, fn>>

Drain_Count ==
  /\ run.pc = "count"
  /\ run' = [run EXCEPT !.pc = "done", !.count = getUnvisitedCount(nodes)]
  /\ UNCHANGED <<nodes, edges, multis, now, tieOrder, rejected, gen, pulled, fn>>

NextDrain == Drain_Seed \/ Drain_Start \/ Drain_Pull \/ Drain_Mark \/ Drain_Count

SpecDrain == InitDrain /\ [][NextDrain]_vars

----------------------------------------------------------------------------
(* processList: the loop that crawls every item of a sequence of names.    *)
(* The crawl script feeds it the generator, the heal script the array of   *)
(* the names whose metadata is incomplete.                                  *)

\* the names the seed script enqueues before a crawl
CrawlSeeds == { <<"A">>, <<"r", "/", "r", "/", "a">> }

\* href.slice(3) of the links "/r/...": "/r/" itself gives the empty name
LinkNames == { <<>>, <<"A">>, <<"b">> }

\* [...new Set(links)]: a list without repetitions
LinkLists ==
  { l \in UNION { [1..n -> LinkNames] : n \in 0..MaxLinks } :
      \A i, j \in DOMAIN l : l[i] = l[j] => i = j }

\* what crawlSubreddit resolves to: no links are extracted when the
\* metadata says the subreddit is not over18; meta is null when the fetch
\* of the metadata failed
CrawlResults ==
  { [links |-> l, meta |-> NULL] : l \in LinkLists }
    \cup { [links |-> l, meta |-> Some([subscribers |-> n, over18 |-> TRUE])] :
             l \in LinkLists, n \in MetaSubscribers }
    \cup { [links |-> <<>>, meta |-> Some([subscribers |-> n, over18 |-> FALSE])] :
             n \in MetaSubscribers }

NoList ==
  [pc |-> "seed", yielded |-> <<>>, count |-> 0, subreddit |-> <<>>,
   links |-> <<>>, found |-> <<>>, meta |-> NULL, rows |-> {}, started |-> 0]

InitList ==
  /\ nodes = <<>>
  /\ edges = EmptyBag
  /\ multis = EmptyBag
  /\ now = 0
  /\ tieOrder \in Permutations(1..MaxNodes)
  /\ rejected = FALSE
  /\ gen = NoGen
  /\ pulled = NoPull
  /\ run = NoList
  /\ fn = NoFn

\* const sub = await crawler.crawlSubreddit(subreddit);
\* if (sub.meta !== null) await db.updateMeta(subreddit, over18, subscribers)
processList_Crawl ==
  /\ run.pc = "crawl"
  /\ \E sub \in CrawlResults :
       /\ nodes' = IF sub.meta # NULL
                   THEN updateMeta(nodes, run.subreddit,
                                   sub.meta[1].over18, sub.meta[1].subscribers)
                   ELSE nodes
       /\ run' = [run EXCEPT !.pc = "links", !.links = sub.links,
                             !.found = sub.links, !.meta = sub.meta]
  /\ UNCHANGED <<edges, multis, now, tieOrder, rejected, gen, pulled, fn>>

\* one round of for (const discovered of sub.links):
\* await db.addToQueue(discovered); await db.addEdge(subreddit, discovered);
\* an error of addEdge leaves the loop and the script
processList_Link ==
  /\ run.pc = "links"
  /\ run.links # <<>>
  /\ LET discovered == Head(run.links)
         queued == addToQueue(nodes, discovered, now)
         edge == addEdge(queued.nodes, edges, run.subreddit, discovered)
     IN /\ Len(queued.nodes) <= MaxNodes
        /\ BagCardinality(edge.edges) <= MaxEdges
        /\ nodes' = queued.nodes
        /\ edges' = edge.edges
        /\ rejected' = edge.err
        /\ run' = IF edge.err THEN [run EXCEPT !.pc = "failed"]
                  ELSE [run EXCEPT !.links = Tail(@)]
  /\ UNCHANGED <<multis, now, tieOrder, gen, pulled, fn>>

\* await db.markVisited(subreddit); count++
processList_Mark ==
  /\ run.pc = "links"
  /\ run.links = <<>>
  /\ nodes' = markVisited(nodes, run.subreddit)
  /\ run' = [run EXCEPT !.pc = "pull", !.count = @ + 1]
  /\ UNCHANGED <<edges, multis, now, tieOrder, rejected, gen, pulled, fn>>

\* the crawl script: the queue was seeded before
Crawl_Seed ==
  /\ run.pc = "seed"
  /\ Call_addToQueue(CrawlSeeds)

\* processList(db.getUnvisitedGenerator(), ...)
Crawl_Start ==
  /\ run.pc = "seed"
  /\ gen' = [pc |-> "start", value |-> <<>>]
  /\ run' = [run EXCEPT !.pc = "pull", !.started = Len(nodes)]
  /\ UNCHANGED <<nodes, edges, multis, now, tieOrder, rejected, pulled, fn>>

\* for await (const subreddit of subs), subs the generator
Crawl_Pull ==
  /\ run.pc = "pull"
  /\ gen.pc \in {"start", "suspended"}
  /\ Len(run.yielded) < MaxYield
  /\ LET r == getUnvisitedGenerator(nodes, tieOrder)
     IN IF r.done
        THEN /\ gen' = [pc |-> "done", value |-> <<>>]
             /\ run' = [run EXCEPT !.pc = "done"]
             /\ UNCHANGED pulled
        ELSE /\ gen' = [pc |-> "suspended", value |-> r.value]
             /\ pulled' = [set |-> TRUE, subreddit |-> r.value]
             /\ run' = [run EXCEPT !.pc = "crawl", !.subreddit = r.value,
                                   !.yielded = Append(@, r.value)]
  /\ UNCHANGED <<nodes, edges, multis, now, tieOrder, rejected, fn>>

\* await sleep(delay): the clock moves on while the loop runs
Crawl_Sleep ==
  /\ run.pc \in {"seed", "crawl"}
  /\ Tick

NextCrawl ==
  \/ Crawl_Seed
  \/ Crawl_Start
  \/ Crawl_Pull
  \/ Crawl_Sleep
  \/ processList_Crawl
  \/ processList_Link
  \/ processList_Mark

SpecCrawl == InitList /\ [][NextCrawl]_vars

\* the heal script: the store as earlier runs left it
Heal_Seed ==
  /\ run.pc = "seed"
  /\ \/ Call_addToQueue(Names)
     \/ Call_updateMeta
     \/ Call_markVisited(Names)

\* rows = select ... where nsfw is null or subscribers is null;
\* processList(rows.map((x) => x.subreddit), ...)
Heal_Start ==
  /\ run.pc = "seed"
  /\ run' = [run EXCEPT !.pc = "pull", !.rows = listIncomplete(nodes),
                        !.started = Len(nodes)]
  /\ UNCHANGED <<nodes, edges, multis, now, tieOrder, rejected, gen, pulled, fn>>

\* for await (const subreddit of subs), subs the array of the rows, which
\* the query returns in no stated order
Heal_Pull ==
  /\ run.pc = "pull"
  /\ gen.pc = "none"
  /\ IF run.rows = {}
     THEN run' = [run EXCEPT !.pc = "done"]
     ELSE \E subreddit \in run.rows :
            run' = [run EXCEPT !.pc = "crawl", !.subreddit = subreddit,
                               !.rows = @ \ {subreddit},
                               !.yielded = Append(@, subreddit)]
  /\ UNCHANGED <<nodes, edges, multis, now, tieOrder, rejected, gen, pulled, fn>>

NextHeal ==
  \/ Heal_Seed
  \/ Heal_Start
  \/ Heal_Pull
  \/ processList_Crawl
  \/ processList_Link
  \/ processList_Mark

SpecHeal == InitList /\ [][NextHeal]_vars

----------------------------------------------------------------------------
(* Two consumers on one store: each runs processList over a generator of  *)
(* its own, and the steps of the two interleave at every await            *)

Consumers == {1, 2}

NoConsumer == [pc |-> "pull", subreddit |-> <<>>, links |-> <<>>, meta |-> NULL]

InitRace ==
  /\ nodes = <<>>
  /\ edges = EmptyBag
  /\ multis = EmptyBag
  /\ now = 0
  /\ tieOrder \in Permutations(1..MaxNodes)
  /\ rejected = FALSE
  /\ gen = NoGen
  /\ pulled = NoPull
  /\ run = [pc |-> "seed", of |-> [w \in Consumers |-> NoConsumer]]
  /\ fn = NoFn

\* the queue is seeded before the consumers start
Race_Seed ==
  /\ run.pc = "seed"
  /\ Call_addToQueue(CrawlSeeds)

Race_Start ==
  /\ run.pc = "seed"
  /\ run' = [run EXCEPT !.pc = "run"]
  /\ UNCHANGED <<nodes, edges, multis, now, tieOrder, rejected, gen, pulled, fn>>

\* for await (const subreddit of subs): the generator of consumer w runs
\* getNextUnvisited and yields, or ends
Consumer_Pull(w) ==
  /\ run.pc = "run"
  /\ run.of[w].pc = "pull"
  /\ LET r == getUnvisitedGenerator(nodes, tieOrder)
     IN run' = IF r.done
               THEN [run EXCEPT !.of[w].pc = "done"]
               ELSE [run EXCEPT !.of[w].pc = "crawl", !.of[w].subreddit = r.value]
  /\ UNCHANGED <<nodes, edges, multis, now, tieOrder, rejected, gen, pulled, fn>>

\* crawlSubreddit and updateMeta of consumer w
Consumer_Crawl(w) ==
  /\ run.pc = "run"
  /\ run.of[w].pc = "crawl"
  /\ \E sub \in CrawlResults :
       /\ nodes' = IF sub.meta # NULL
                   THEN updateMeta(nodes, run.of[w].subreddit,
                                   sub.meta[1].over18, sub.meta[1].subscribers)
                   ELSE nodes
       /\ run' = [run EXCEPT !.of[w].pc = "links", !.of[w].links = sub.links,
                             !.of[w].meta = sub.meta]
  /\ UNCHANGED <<edges, multis, now, tieOrder, rejected, gen, pulled, fn>>

\* one round of the loop over sub.links of consumer w
Consumer_Link(w) ==
  /\ run.pc = "run"
  /\ run.of[w].pc = "links"
  /\ run.of[w].links # <<>>
  /\ LET discovered == Head(run.of[w].links)
         queued == addToQueue(nodes, discovered, now)
         edge == addEdge(queued.nodes, edges, run.of[w].subreddit, discovered)
     IN /\ Len(queued.nodes) <= MaxNodes
        /\ BagCardinality(edge.edges) <= MaxEdges
        /\ nodes' = queued.nodes
        /\ edges' = edge.edges
        /\ rejected' = edge.err
        /\ run' = IF edge.err THEN [run EXCEPT !.of[w].pc = "failed"]
                  ELSE [run EXCEPT !.of[w].links = Tail(@)]
  /\ UNCHANGED <<multis, now, tieOrder, gen, pulled, fn>>

\* markVisited of consumer w, then its next pull
Consumer_Mark(w) ==
  /\ run.pc = "run"
  /\ run.of[w].pc = "links"
  /\ run.of[w].links = <<>>
  /\ nodes' = markVisited(nodes, run.of[w].subreddit)
  /\ run' = [run EXCEPT !.of[w].pc = "pull"]
  /\ UNCHANGED <<edges, multis, now, tieOrder, rejected, gen, pulled, fn>>

NextRace ==
  \/ Race_Seed
  \/ Race_Start
  \/ \E w \in Consumers : Consumer_Pull(w)
  \/ \E w \in Consumers : Consumer_Crawl(w)
  \/ \E w \in Consumers : Consumer_Link(w)
  \/ \E w \in Consumers : Consumer_Mark(w)

SpecRace == InitRace /\ [][NextRace]_vars

\* one consumer alone, and its loop scheduled again and again: the event
\* loop resumes the script after every await, so a step of the loop that
\* is possible is taken
Loop_Step == Consumer_Pull(1) \/ Consumer_Crawl(1) \/ Consumer_Link(1) \/ Consumer_Mark(1)

NextLoop == Race_Seed \/ Race_Start \/ Loop_Step

SpecLoop ==
  InitRace /\ [][NextLoop]_vars /\ WF_vars(Race_Start) /\ WF_vars(Loop_Step)

----------------------------------------------------------------------------
(* The crawl as a function of the store, the extractor and the clock: the *)
(* store operations of processList one after the other, stopped after a   *)
(* number of them, and started again on the store that was left           *)

\* the names the extractor is asked about, and the links it returns
ResumeItems == { <<"a">>, <<"b">> }

ResumeLinks == { <<>>, <<"b">> }

ResumeResults ==
  { [links |-> l, meta |-> m] :
      l \in Batches(ResumeLinks),
      m \in { NULL, Some([subscribers |-> 7, over18 |-> TRUE]) } }

\* a deterministic extractor: one result for a name
Extractors == [ResumeItems -> ResumeResults]

\* the store operations of one round of the loop over sub.links
RECURSIVE LinkOps(_)
LinkOps(links) ==
  IF links = <<>> THEN <<>>
  ELSE << [op |-> "addToQueue", name |-> Head(links)],
          [op |-> "addEdge", name |-> Head(links)] >> \o LinkOps(Tail(links))

\* the store operations of the loop body for an item, in order
LoopOps(sub) ==
  (IF sub.meta # NULL THEN << [op |-> "updateMeta", name |-> <<>>] >> ELSE <<>>)
    \o LinkOps(sub.links)
    \o << [op |-> "markVisited", name |-> <<>>] >>

\* one store operation of the loop body; an error of addEdge is kept
ApplyOp(st, subreddit, sub, op, t) ==
  CASE op.op = "updateMeta" ->
         [st EXCEPT !.nodes = updateMeta(st.nodes, subreddit, sub.meta[1].over18,
                                         sub.meta[1].subscribers)]
    [] op.op = "addToQueue" ->
         [st EXCEPT !.nodes = addToQueue(st.nodes, op.name, t).nodes]
    [] op.op = "addEdge" ->
         LET edge == addEdge(st.nodes, st.edges, subreddit, op.name)
         IN [st EXCEPT !.edges = edge.edges,
                       !.status = IF edge.err THEN "failed" ELSE @]
    [] op.op = "markVisited" ->
         [st EXCEPT !.nodes = markVisited(st.nodes, subreddit)]

NoPending == [subreddit |-> <<>>, ops |-> <<>>]

\* processList over the generator: n store operations at most, at the
\* time t; the status tells whether the generator ended ("done"), addEdge
\* threw ("failed") or the run was stopped after the n operations
RECURSIVE RunLoop(_, _, _, _, _, _)
RunLoop(st, crawler, order, t, pending, n) ==
  IF st.status = "failed" THEN st
  ELSE IF n = 0 THEN [st EXCEPT !.status = "stopped"]
  ELSE IF pending.ops = <<>>
       THEN LET r == getUnvisitedGenerator(st.nodes, order)
            IN IF r.done THEN [st EXCEPT !.status = "done"]
               ELSE RunLoop(st, crawler, order, t,
                            [subreddit |-> r.value, ops |-> LoopOps(crawler[r.value])], n)
       ELSE RunLoop(ApplyOp(st, pending.subreddit, crawler[pending.subreddit],
                            Head(pending.ops), t),
                    crawler, order, t, [pending EXCEPT !.ops = Tail(@)], n - 1)

\* the store operations an uninterrupted run is given
MaxOps == 12

\* the seconds a restart may take
MaxGap == 1

\* the store after the seed script
SeededStore == [nodes |-> addToQueue(<<>>, <<"A">>, 0).nodes, edges |-> EmptyBag,
                status |-> "running"]

InitResume ==
  /\ nodes = <<>>
  /\ edges = EmptyBag
  /\ multis = EmptyBag
  /\ now = 0
  /\ tieOrder \in Permutations(1..(Cardinality(ResumeItems) + 1))
  /\ rejected = FALSE
  /\ gen = NoGen
  /\ pulled = NoPull
  /\ run = NoRun
  /\ \E crawler \in Extractors :
       fn = [pc |-> "seeded", crawler |-> crawler, full |-> SeededStore,
             stopped |-> SeededStore, resumed |-> SeededStore, n |-> 0, gap |-> 0]

\* the run that is never interrupted
Run_Uninterrupted ==
  /\ fn.pc = "seeded"
  /\ fn' = [fn EXCEPT !.pc = "full",
                      !.full = RunLoop(SeededStore, fn.crawler, tieOrder, 0,
                                       NoPending, MaxOps)]
  /\ UNCHANGED <<nodes, edges, multis, now, tieOrder, rejected, gen, pulled, run>>

\* the run that is stopped after n store operations
Run_Stopped ==
  /\ fn.pc = "full"
  /\ \E n \in 0..(MaxOps - 1) :
       LET st == RunLoop(SeededStore, fn.crawler, tieOrder, 0, NoPending, n)
       IN /\ st.status = "stopped"
          /\ fn' = [fn EXCEPT !.pc = "stopped", !.stopped = st, !.n = n]
  /\ UNCHANGED <<nodes, edges, multis, now, tieOrder, rejected, gen, pulled, run>>

\* the run started again on the store that was left, with a fresh generator
Run_Resumed ==
  /\ fn.pc = "stopped"
  /\ \E gap \in 0..MaxGap :
       fn' = [fn EXCEPT !.pc = "resumed", !.gap = gap,
                        !.resumed = RunLoop([fn.stopped EXCEPT !.status = "running"],
                                            fn.crawler, tieOrder, gap, NoPending, MaxOps)]
  /\ UNCHANGED <<nodes, edges, multis, now, tieOrder, rejected, gen, pulled, run>>

NextResume == Run_Uninterrupted \/ Run_Stopped \/ Run_Resumed

SpecResume == InitResume /\ [][NextResume]_vars

----------------------------------------------------------------------------
(* The snapshot exporter: getJSONFromDatabase reads the edges and the      *)
(* nodes and joins them into NodeData records                              *)

\* the orders in which a SELECT without ORDER BY may return the rows of a
\* table that holds the rows S
Scans(S) ==
  { scan \in [1..Cardinality(S) -> S] :
      \A i, j \in 1..Cardinality(S) : scan[i] = scan[j] => i = j }

\* SELECT from_id, to_id FROM subreddit_edges, parsed by EdgesArraySchema
getAllEdgesIDs(es, scan) == scan

\* a column of the row as JSON: boolean TRUE is stored as 1, FALSE as 0
Sqlite(v) == IF v = TRUE THEN 1 ELSE IF v = FALSE THEN 0 ELSE v

\* SELECT id, subreddit, subscribers, nsfw FROM subreddit_queue
SubredditRow(row) ==
  [id |-> row.id, subreddit |-> row.subreddit,
   subscribers |-> IF row.subscribers = NULL THEN NULL ELSE Some(row.subscribers[1]),
   nsfw |-> IF row.nsfw = NULL THEN NULL ELSE Some(Sqlite(row.nsfw[1]))]

\* z.array(SubredditRow).parse(rows): subscribers is z.number() and nsfw is
\* z.union([z.literal(0), z.literal(1)]), so a null in either column throws
Database_subreddits(ns, scan) ==
  LET rows == [i \in 1..Len(ns) |-> SubredditRow(ns[scan[i]])]
  IN [err |-> \E i \in 1..Len(ns) : rows[i].subscribers = NULL \/ rows[i].nsfw = NULL,
      rows |-> rows]

\* the reduce over the edge rows: from_id -> the to_ids in the order of the rows
RECURSIVE LinksOf(_, _)
LinksOf(edgeRows, id) ==
  IF edgeRows = <<>> THEN <<>>
  ELSE IF Head(edgeRows).from_id = id
       THEN <<Head(edgeRows).to_id>> \o LinksOf(Tail(edgeRows), id)
       ELSE LinksOf(Tail(edgeRows), id)

NodeData(row, linksTo) ==
  [id |-> row.id, subreddit |-> row.subreddit, subscribers |-> row.subscribers,
   nsfw |-> row.nsfw, linksTo |-> linksTo]

getJSONFromDatabase(ns, es, nodeScan, edgeScan) ==
  LET edgeRows == getAllEdgesIDs(es, edgeScan)
      rows == Database_subreddits(ns, nodeScan)
  IN IF rows.err THEN [err |-> TRUE, nodes |-> <<>>]
     ELSE [err |-> FALSE,
           nodes |-> [i \in 1..Len(ns) |->
                        NodeData(rows.rows[i], LinksOf(edgeRows, rows.rows[i].id))]]

InitExport ==
  /\ InitStore
  /\ tieOrder = [i \in 1..MaxNodes |-> i]

\* one run of the extract script on the store as it is; the export before
\* it is kept for comparison
Call_getJSONFromDatabase ==
  /\ \E nodeScan \in Scans(NodeIds(nodes)), edgeScan \in Scans(DOMAIN edges) :
       LET r == getJSONFromDatabase(nodes, edges, nodeScan, edgeScan)
       IN fn' = [pc |-> "exported", err |-> r.err, nodes |-> r.nodes,
                 of |-> <<nodes, edges>>,
                 before |-> IF fn.pc = "exported"
                            THEN <<[err |-> fn.err, nodes |-> fn.nodes, of |-> fn.of]>>
                            ELSE <<>>]
  /\ UNCHANGED <<nodes, edges, multis, now, tieOrder, rejected, gen, pulled, run>>

ExportNames == { <<"A">>, <<"b">> }

NextExport ==
  \/ Call_addToQueue(ExportNames)
  \/ Call_updateMeta
  \/ Call_addEdgeById
  \/ Call_getJSONFromDatabase

SpecExport == InitExport /\ [][NextExport]_vars

----------------------------------------------------------------------------
(* The community detector (list-hub-clusters.ts) on a snapshot, an array   *)
(* of NodeData.  A Set or a Map of the code is the sequence of its         *)
(* elements in the order of their insertion.                               *)

\* Map.get of idToSubreddit: the name set last for the id, NULL: undefined
idToSubreddit(nodeData, id) ==
  LET at == { i \in 1..Len(nodeData) : nodeData[i].id = id }
  IN IF at = {} THEN NULL
     ELSE Some(nodeData[CHOOSE i \in at : \A j \in at : j <= i].subreddit)

\* Set.add
SetAdd(set, x) ==
  IF \E i \in 1..Len(set) : set[i] = x THEN set ELSE Append(set, x)

\* the names node.linksTo resolves to, in order, kept by
\* "if (toSubreddit)": undefined and the empty name are dropped
LinkedNames(nodeData, node) ==
  LET to == [k \in 1..Len(node.linksTo) |-> idToSubreddit(nodeData, node.linksTo[k])]
      kept == SelectSeq(to, LAMBDA t : t # NULL /\ Truthy(t[1]))
  IN [k \in 1..Len(kept) |-> kept[k][1]]

\* faulty variant: the reverse edge is not added
AddLinks_Directed(adjacencyList, from, tos) ==
  [adjacencyList EXCEPT ![from] = tos]

\* adjacencyList.get(from).add(to); adjacencyList.get(to).add(from)
RECURSIVE AddLinks(_, _, _)
AddLinks(adjacencyList, from, tos) ==
  IF tos = <<>> THEN adjacencyList
  ELSE LET forward == [adjacencyList EXCEPT ![from] = SetAdd(@, Head(tos))]
           both == [forward EXCEPT ![Head(tos)] = SetAdd(@, from)]
       IN AddLinks(both, from, Tail(tos))

RECURSIVE BuildAdjacency(_, _, _)
BuildAdjacency(nodeData, adjacencyList, i) ==
  IF i > Len(nodeData) THEN adjacencyList
  ELSE BuildAdjacency(nodeData,
         AddLinks(adjacencyList, nodeData[i].subreddit, LinkedNames(nodeData, nodeData[i])),
         i + 1)

RECURSIVE NamesInOrder(_, _, _)
NamesInOrder(nodeData, set, i) ==
  IF i > Len(nodeData) THEN set
  ELSE NamesInOrder(nodeData, SetAdd(set, nodeData[i].subreddit), i + 1)

buildGraphFromNodeData(nodeData) ==
  LET nodeSet == NamesInOrder(nodeData, <<>>, 1)
      empty == [name \in { nodeSet[i] : i \in 1..Len(nodeSet) } |-> <<>>]
  IN [nodes |-> nodeSet, adjacencyList |-> BuildAdjacency(nodeData, empty, 1)]

\* ConnectedComponentsDetection.dfs: the recursion and its loop over the
\* neighbours
RECURSIVE dfs(_, _, _, _)
RECURSIVE dfsNeighbors(_, _, _, _)
dfs(graph, node, visited, component) ==
  dfsNeighbors(graph, graph.adjacencyList[node], visited \cup {node},
               Append(component, node))

dfsNeighbors(graph, neighbors, visited, component) ==
  IF neighbors = <<>> THEN [visited |-> visited, component |-> component]
  ELSE IF Head(neighbors) \in visited
       THEN dfsNeighbors(graph, Tail(neighbors), visited, component)
       ELSE LET r == dfs(graph, Head(neighbors), visited, component)
            IN dfsNeighbors(graph, Tail(neighbors), r.visited, r.component)

\* the loop of ConnectedComponentsDetection.detect over graph.nodes;
\* components: the entries [node, componentId] of the Map in order
RECURSIVE detectLoop(_, _, _, _, _)
detectLoop(graph, i, visited, components, componentId) ==
  IF i > Len(graph.nodes) THEN components
  ELSE IF graph.nodes[i] \in visited
       THEN detectLoop(graph, i + 1, visited, components, componentId)
       ELSE LET r == dfs(graph, graph.nodes[i], visited, <<>>)
                entries == [k \in 1..Len(r.component) |->
                              [node |-> r.component[k], componentId |-> componentId]]
            IN detectLoop(graph, i + 1, r.visited, components \o entries, componentId + 1)

\* faulty variant: only the nodes that have a neighbour are traversed
detect_LinkedOnly(graph) ==
  detectLoop(graph, 1,
             { graph.nodes[i] : i \in { j \in 1..Len(graph.nodes) :
                 graph.adjacencyList[graph.nodes[j]] = <<>> } },
             <<>>, 0)

detect(graph) == detectLoop(graph, 1, {}, <<>>, 0)

\* the rank of a character in the collation of localeCompare
CharRank(c) ==
  CASE c = "/" -> 0
    [] c = "a" -> 1
    [] c = "b" -> 2
    [] c = "c" -> 3
    [] c = "m" -> 4
    [] c = "r" -> 5
    [] OTHER -> 6

\* a.localeCompare(b) < 0
RECURSIVE localeCompareLess(_, _)
localeCompareLess(a, b) ==
  IF b = <<>> THEN FALSE
  ELSE IF a = <<>> THEN TRUE
  ELSE IF CharRank(Head(a)) # CharRank(Head(b)) THEN CharRank(Head(a)) < CharRank(Head(b))
  ELSE localeCompareLess(Tail(a), Tail(b))

\* faulty variant: memberNames is left in the order of the traversal
sortNames_Unsorted(memberNames) == memberNames

\* memberNames.sort((a, b) => a.localeCompare(b))
RECURSIVE sortNames(_)
sortNames(memberNames) ==
  IF memberNames = <<>> THEN <<>>
  ELSE LET rest == sortNames(Tail(memberNames))
           x == Head(memberNames)
           before == SelectSeq(rest, LAMBDA y : ~localeCompareLess(x, y))
           after == SelectSeq(rest, LAMBDA y : localeCompareLess(x, y))
       IN before \o <<x>> \o after

\* subredditMap.get(name): the SmallSubreddit set last for the name
SmallSubreddit(nodeData, name) ==
  LET at == { i \in 1..Len(nodeData) : nodeData[i].subreddit = name }
      last == CHOOSE i \in at : \A j \in at : j <= i
  IN [id |-> nodeData[last].id, subreddit |-> name]

\* faulty variant: the size of the symmetric neighbourhood
calculateNodeStatistics_Neighbours(nodeData) ==
  LET graph == buildGraphFromNodeData(nodeData)
  IN [id \in { nodeData[i].id : i \in 1..Len(nodeData) } |->
        LET name == idToSubreddit(nodeData, id)[1]
        IN [name |-> name, outDegree |-> 0, inDegree |-> 0,
            totalDegree |-> Len(graph.adjacencyList[name])]]

\* stats.get(id) of calculateNodeStatistics: inDegree counts the names
\* that link to the node (the links kept by "if (toSubreddit)"), outDegree
\* the links of the node whose id resolves (name !== undefined)
calculateNodeStatistics(nodeData) ==
  [id \in { nodeData[i].id : i \in 1..Len(nodeData) } |->
     LET at == { i \in 1..Len(nodeData) : nodeData[i].id = id }
         node == nodeData[CHOOSE i \in at : \A j \in at : j <= i]
         outConnections ==
           SelectSeq([k \in 1..Len(node.linksTo) |-> idToSubreddit(nodeData, node.linksTo[k])],
                     LAMBDA t : t # NULL)
         inConnections ==
           { nodeData[i].subreddit : i \in { j \in 1..Len(nodeData) :
               \E k \in 1..Len(LinkedNames(nodeData, nodeData[j])) :
                 LinkedNames(nodeData, nodeData[j])[k] = node.subreddit } }
     IN [name |-> node.subreddit,
         outDegree |-> Len(outConnections),
         inDegree |-> Cardinality(inConnections),
         totalDegree |-> Len(outConnections) + Cardinality(inConnections)]]

\* faulty variant: "stats.totalDegree >= maxDegree", the last of the
\* members of maximal degree wins
findHubInCommunity_Last(community, nodeStats) ==
  LET best == { i \in 1..Len(community) :
                  \A j \in 1..Len(community) :
                    nodeStats[community[j].id].totalDegree
                      <= nodeStats[community[i].id].totalDegree }
  IN community[CHOOSE i \in best : \A j \in best : j <= i]

\* the scan of findHubInCommunity: hub = community[0], maxDegree = 0, a
\* member replaces the hub when its totalDegree is greater than maxDegree
RECURSIVE findHubLoop(_, _, _, _, _)
findHubLoop(community, nodeStats, i, hub, maxDegree) ==
  IF i > Len(community) THEN hub
  ELSE IF nodeStats[community[i].id].totalDegree > maxDegree
       THEN findHubLoop(community, nodeStats, i + 1, community[i],
                        nodeStats[community[i].id].totalDegree)
       ELSE findHubLoop(community, nodeStats, i + 1, hub, maxDegree)

findHubInCommunity(community, nodeStats) ==
  findHubLoop(community, nodeStats, 1, community[1], 0)

\* faulty variant: ascending member count
sortCommunities_Ascending(communities) ==
  LET key(i) == Len(communities[i].members) * (Len(communities) + 1) + i
      place(i) == Cardinality({ j \in 1..Len(communities) : key(j) <= key(i) })
  IN [p \in 1..Len(communities) |->
        communities[CHOOSE i \in 1..Len(communities) : place(i) = p]]

\* .sort((a, b) => b.members.length - a.members.length): the sort is
\* stable, communities of one size keep their order
RECURSIVE sortCommunities(_)
sortCommunities(communities) ==
  IF communities = <<>> THEN <<>>
  ELSE LET rest == sortCommunities(Tail(communities))
           x == Head(communities)
           before == SelectSeq(rest, LAMBDA y : Len(y.members) > Len(x.members))
           after == SelectSeq(rest, LAMBDA y : Len(y.members) <= Len(x.members))
       IN before \o <<x>> \o after

analyzeSubredditClusters(nodeData) ==
  LET graph == buildGraphFromNodeData(nodeData)
      components == detect(graph)
      ids == { components[k].componentId : k \in 1..Len(components) }
      nodeStats == calculateNodeStatistics(nodeData)
      memberNames(id) ==
        LET entries == SelectSeq(components, LAMBDA e : e.componentId = id)
        IN [k \in 1..Len(entries) |-> entries[k].node]
      community(id) ==
        LET sortedNames == sortNames(memberNames(id))
            memberObjects == [k \in 1..Len(sortedNames) |->
                                SmallSubreddit(nodeData, sortedNames[k])]
        IN [name |-> findHubInCommunity(memberObjects, nodeStats),
            members |-> memberObjects]
  IN sortCommunities([k \in 1..Cardinality(ids) |-> community(k - 1)])

\* the snapshots: the nodes of a store in the order of their ids, with
\* distinct names, every link the id of another node of the snapshot
SnapNames == { <<>>, <<"a">>, <<"b">>, <<"c">> }

RECURSIVE Ascending(_)
Ascending(S) ==
  IF S = {} THEN <<>>
  ELSE LET least == CHOOSE x \in S : \A y \in S : x <= y
       IN <<least>> \o Ascending(S \ {least})

SnapshotsOver(N, n) ==
  IF n > Cardinality(N) THEN {}
  ELSE LET pairs == { p \in (1..n) \X (1..n) : p[1] # p[2] }
           links == { E \in SUBSET pairs : Cardinality(E) <= MaxSnapEdges }
           names == { f \in [1..n -> N] : \A i, j \in 1..n : f[i] = f[j] => i = j }
       IN { [i \in 1..n |->
               [id |-> i, subreddit |-> f[i], subscribers |-> 7, nsfw |-> 1,
                linksTo |-> Ascending({ j \in 1..n : <<i, j>> \in E })]] :
            f \in names, E \in links }

SnapshotsOf(n) == SnapshotsOver(SnapNames, n)

InitDetect ==
  /\ nodes = <<>>
  /\ edges = EmptyBag
  /\ multis = EmptyBag
  /\ now = 0
  /\ tieOrder = [i \in 1..MaxNodes |-> i]
  /\ rejected = FALSE
  /\ gen = NoGen
  /\ pulled = NoPull
  /\ run = NoRun
  /\ \E n \in 0..MaxSnap : \E nodeData \in SnapshotsOf(n) :
       fn = [pc |-> "snapshot", nodeData |-> nodeData, communities |-> <<>>,
             stats |-> <<>>]

\* getHubClusters(json)
Call_getHubClusters ==
  /\ fn.pc = "snapshot"
  /\ fn' = [fn EXCEPT !.pc = "clusters",
                      !.communities = analyzeSubredditClusters(fn.nodeData),
                      !.stats = calculateNodeStatistics(fn.nodeData)]
  /\ UNCHANGED <<nodes, edges, multis, now, tieOrder, rejected, gen, pulled, run>>

NextDetect == Call_getHubClusters

SpecDetect == InitDetect /\ [][NextDetect]_vars

----------------------------------------------------------------------------
(* The anonymizer: src/src/analysis/mangle.ts keeps the members of the
   clusters above a size threshold, src/src/test.ts the members of the
   largest cluster; both relabel the kept nodes with a Fisher-Yates shuffle
   and write the relabelled nodes sorted by their new id *)

\* the threshold of mangle.ts, "x.members.length > 10"
MinMembers == 10

\* the thresholds the selection is run with: the one of the source, and
\* two that clusters of a bounded snapshot exceed
Thresholds == { 0, 1, MinMembers }

RECURSIVE flatMapMembers(_)
flatMapMembers(clusters) ==
  IF clusters = <<>> THEN <<>>
  ELSE Head(clusters).members \o flatMapMembers(Tail(clusters))

\* faulty variant: clusters of at least the threshold
selectedMembers_AtLeast(clusters, threshold) ==
  flatMapMembers(SelectSeq(clusters, LAMBDA x : Len(x.members) >= threshold))

\* clusters.filter((x) => x.members.length > 10).flatMap((x) => x.members)
selectedMembers(clusters, threshold) ==
  flatMapMembers(SelectSeq(clusters, LAMBDA x : Len(x.members) > threshold))

\* new Set(members.map((x) => x.subreddit)), new Set(members.map((x) => x.id))
communityMembersSubs(members) == { members[i].subreddit : i \in 1..Len(members) }

communityMembersIds(members) == { members[i].id : i \in 1..Len(members) }

\* allNodeData.filter((node) => communityMembersSubs.has(node.subreddit))
filteredNodeData(allNodeData, members) ==
  SelectSeq(allNodeData, LAMBDA node : node.subreddit \in communityMembersSubs(members))

\* faulty variant: new Array(k).fill(0) without the map to the index
newIds_Filled(k) == [index \in 1..k |-> 0]

\* new Array(k).fill(0).map((_, index) => index)
newIds(k) == [index \in 1..k |-> index - 1]

\* the outcomes of Math.floor(Math.random() * (i + 1)) for i = k-1 .. 1:
\* for every i a j in 0..i
RandomChoices(k) ==
  { c \in [1..(k - 1) -> 0..(k - 1)] : \A i \in 1..(k - 1) : c[i] <= i }

\* [ids[i], ids[j]] = [ids[j], ids[i]] on 0-based positions
Swap(ids, i, j) ==
  [p \in 1..Len(ids) |->
     IF p = i + 1 THEN ids[j + 1] ELSE IF p = j + 1 THEN ids[i + 1] ELSE ids[p]]

\* for (let i = ids.length - 1; i > 0; i--) { j = random; swap(i, j) }
RECURSIVE shuffleLoop(_, _, _)
shuffleLoop(ids, i, choice) ==
  IF i > 0 THEN shuffleLoop(Swap(ids, i, choice[i]), i - 1, choice) ELSE ids

shuffledIds(filtered, choice) ==
  shuffleLoop([p \in 1..Len(filtered) |-> filtered[p].id], Len(filtered) - 1, choice)

\* shuffledIds.forEach((originalId, index) => mangledIDs.set(originalId,
\* newIds[index])): a later set of one key replaces the earlier one
mangledIDs(shuffled) ==
  LET ids == newIds(Len(shuffled))
  IN [originalId \in { shuffled[p] : p \in 1..Len(shuffled) } |->
        ids[CHOOSE p \in 1..Len(shuffled) :
              /\ shuffled[p] = originalId
              /\ \A q \in 1..Len(shuffled) : shuffled[q] = originalId => q <= p]]

\* Map.get: undefined for a key the map does not hold
MapGet(map, key) == IF key \in DOMAIN map THEN Some(map[key]) ELSE NULL

\* faulty variant: a target outside the map keeps its original id
newLinksTo_Keep(linksTo, map) ==
  [p \in 1..Len(linksTo) |->
     IF linksTo[p] \in DOMAIN map THEN map[linksTo[p]] ELSE linksTo[p]]

\* faulty variant: only the first link that maps to a new id is kept
newLinksTo_First(linksTo, map) ==
  LET kept == SelectSeq(linksTo, LAMBDA t : t \in DOMAIN map)
  IN IF kept = <<>> THEN <<>> ELSE <<map[kept[1]]>>

\* mangle.ts: node.linksTo.map((targetId) => mangledIDs.get(targetId))
\*                        .filter((id) => id !== undefined)
newLinksTo(linksTo, map) ==
  LET mapped == [p \in 1..Len(linksTo) |-> MapGet(map, linksTo[p])]
      kept == SelectSeq(mapped, LAMBDA id : id # NULL)
  IN [p \in 1..Len(kept) |-> kept[p][1]]

\* test.ts: a target that is not in communityMembersIds maps to undefined,
\* another to Mangle.get(targetId); undefined is filtered out
newLinksTo_Community(linksTo, map, memberIds) ==
  LET mapped == [p \in 1..Len(linksTo) |->
                   IF linksTo[p] \notin memberIds THEN NULL
                   ELSE MapGet(map, linksTo[p])]
      kept == SelectSeq(mapped, LAMBDA id : id # NULL)
  IN [p \in 1..Len(kept) |-> kept[p][1]]

\* mangledNodeData.sort((a, b) => a.id - b.id), a stable sort
RECURSIVE sortById(_)
sortById(records) ==
  IF records = <<>> THEN <<>>
  ELSE LET rest == sortById(Tail(records))
           x == Head(records)
           before == SelectSeq(rest, LAMBDA y : y.id < x.id)
           after == SelectSeq(rest, LAMBDA y : y.id >= x.id)
       IN before \o <<x>> \o after

\* filteredNodeData.map((node) => ({...node, id: newId, linksTo: newLinksTo}))
\* followed by the sort; links[p] is the newLinksTo of filtered[p]
mangledNodeData(filtered, map, links) ==
  sortById([p \in 1..Len(filtered) |->
              [filtered[p] EXCEPT !.id = map[filtered[p].id],
                                  !.linksTo = links[p]]])

\* the snapshots the anonymizer is run on
MangleNames == { <<>>, <<"a">>, <<"b">> }

MangleSnapshots(n) == SnapshotsOver(MangleNames, n)

InitMangle ==
  /\ nodes = <<>>
  /\ edges = EmptyBag
  /\ multis = EmptyBag
  /\ now = 0
  /\ tieOrder = [i \in 1..MaxNodes |-> i]
  /\ rejected = FALSE
  /\ gen = NoGen
  /\ pulled = NoPull
  /\ run = NoRun
  /\ \E n \in 0..MaxSnap : \E nodeData \in MangleSnapshots(n) :
       fn = [pc |-> "file", nodeData |-> nodeData, script |-> "", threshold |-> 0,
             choice |-> <<>>, filtered |-> <<>>, mangledIDs |-> <<>>, out |-> <<>>]

\* mangle.ts lines 13-28: the nodes the script keeps
retained_mangle(allNodeData, threshold) ==
  filteredNodeData(allNodeData,
                   selectedMembers(analyzeSubredditClusters(allNodeData), threshold))

\* mangle.ts lines 34-70: what the script writes for the kept nodes and an
\* outcome of the shuffle
written_mangle(filtered, choice) ==
  LET map == mangledIDs(shuffledIds(filtered, choice))
      links == [p \in 1..Len(filtered) |-> newLinksTo(filtered[p].linksTo, map)]
  IN [mangledIDs |-> map, out |-> mangledNodeData(filtered, map, links)]

\* the script of mangle.ts, run with a threshold and an outcome of the
\* shuffle; it writes the file
Run_mangle ==
  /\ fn.pc = "file"
  /\ \E threshold \in Thresholds :
       LET filtered == retained_mangle(fn.nodeData, threshold)
       IN \E choice \in RandomChoices(Len(filtered)) :
            LET w == written_mangle(filtered, choice)
            IN fn' = [fn EXCEPT !.pc = "written", !.script = "mangle",
                                !.threshold = threshold, !.choice = choice,
                                !.filtered = filtered, !.mangledIDs = w.mangledIDs,
                                !.out = w.out]
  /\ UNCHANGED <<nodes, edges, multis, now, tieOrder, rejected, gen, pulled, run>>

\* the script of test.ts: assert(largestCommunity) throws when there is no
\* cluster, and the file is not written
Run_test ==
  /\ fn.pc = "file"
  /\ LET clusters == analyzeSubredditClusters(fn.nodeData)
     IN IF clusters = <<>>
        THEN fn' = [fn EXCEPT !.pc = "failed", !.script = "test"]
        ELSE LET members == clusters[1].members
                 filtered == filteredNodeData(fn.nodeData, members)
             IN \E choice \in RandomChoices(Len(filtered)) :
                  LET map == mangledIDs(shuffledIds(filtered, choice))
                      links == [p \in 1..Len(filtered) |->
                                  newLinksTo_Community(filtered[p].linksTo, map,
                                                       communityMembersIds(members))]
                  IN fn' = [fn EXCEPT !.pc = "written", !.script = "test",
                                      !.choice = choice,
                                      !.filtered = filtered, !.mangledIDs = map,
                                      !.out = mangledNodeData(filtered, map, links)]
  /\ UNCHANGED <<nodes, edges, multis, now, tieOrder, rejected, gen, pulled, run>>

NextMangle == Run_mangle \/ Run_test

SpecMangle == InitMangle /\ [][NextMangle]_vars

----------------------------------------------------------------------------
(* Normalisation as a function: apply it to a name, then to the result *)

InitNormalize ==
  /\ nodes = <<>>
  /\ edges = EmptyBag
  /\ multis = EmptyBag
  /\ now = 0
  /\ tieOrder = [i \in 1..MaxNodes |-> i]
  /\ rejected = FALSE
  /\ gen = NoGen
  /\ pulled = NoPull
  /\ run = NoRun
  /\ \E input \in NamesUpTo(MaxLen) :
       fn = [pc |-> "input", input |-> input, once |-> <<>>, twice |-> <<>>]

Fn_Normalize ==
  /\ fn.pc = "input"
  /\ fn' = [fn EXCEPT !.pc = "once", !.once = Normalize(fn.input)]
  /\ UNCHANGED <<nodes, edges, multis, now, tieOrder, rejected, gen, pulled, run>>

Fn_NormalizeAgain ==
  /\ fn.pc = "once"
  /\ fn' = [fn EXCEPT !.pc = "twice", !.twice = Normalize(fn.once)]
  /\ UNCHANGED <<nodes, edges, multis, now, tieOrder, rejected, gen, pulled, run>>

NextNormalize == Fn_Normalize \/ Fn_NormalizeAgain

SpecNormalize == InitNormalize /\ [][NextNormalize]_vars

----------------------------------------------------------------------------
(* Properties *)

Prefix == <<"r", "/">>

\* a and b differ at most in letter case or in one leading group prefix
Equivalent(a, b) ==
  \/ toLowerCase(a) = toLowerCase(b)
  \/ toLowerCase(a) = Prefix \o toLowerCase(b)
  \/ toLowerCase(b) = Prefix \o toLowerCase(a)

Unvisited(ns) == {i \in NodeIds(ns) : ~ns[i].visited}

IsUnvisitedName(ns, name) ==
  \E i \in Unvisited(ns) : ns[i].subreddit = name

Missing(ns, name) == SelectId(ns, Normalize(name)) = 0

\* C1: in every store state, for any two names that differ only in letter
\* case or in a leading group prefix, upserting one and then the other
\* returns the same id twice, creates at most one node (unvisited) and
\* leaves the nodes that existed as they were.
C1_Claim ==
  \A a \in Names, b \in Names :
    Equivalent(a, b) =>
      LET first == addToQueue(nodes, a, now)
          second == addToQueue(first.nodes, b, now)
      IN /\ first.ret = second.ret
         /\ Len(second.nodes) <= Len(nodes) + 1
         /\ SubSeq(second.nodes, 1, Len(nodes)) = nodes
         /\ \A i \in NodeIds(second.nodes) \ NodeIds(nodes) : ~second.nodes[i].visited

\* C2: normalising a normalised name changes nothing:
\* normalize(normalize(n)) = normalize(n) for every name n.
C2_Claim == fn.pc = "twice" => fn.twice = fn.once

\* C3: the edge table holds at most one row per ordered pair and no row
\* from a node to itself; addEdge(a, b) between two different existing
\* nodes leaves exactly one row for the pair however often it is called,
\* and addEdge between a node and itself adds nothing.
C3_Theorem ==
  /\ \A row \in DOMAIN edges : CopiesIn(row, edges) = 1 /\ row.from_id # row.to_id
  /\ \A from \in Names, to \in Names :
       LET fromId == SelectId(nodes, Normalize(from))
           toId == SelectId(nodes, Normalize(to))
           once == addEdge(nodes, edges, from, to)
           again == addEdge(nodes, once.edges, from, to)
       IN (fromId # 0 /\ toId # 0) =>
            /\ again.edges = once.edges
            /\ fromId # toId => CopiesIn(EdgeRow(fromId, toId), once.edges) = 1
            /\ fromId = toId => once.edges = edges

C3_Witness ==
  /\ Len(nodes) = 2
  /\ BagCardinality(edges) = 2
  /\ ~rejected

C4_RejectsMissing ==
  /\ \A from \in Names, to \in Names :
       (Missing(nodes, from) \/ Missing(nodes, to)) =>
         LET r == addEdge(nodes, edges, from, to)
         IN r.err /\ r.edges = edges
  /\ \A fromId \in 1..(MaxNodes + 1), toId \in 1..(MaxNodes + 1) :
       (fromId # toId /\ (fromId \notin NodeIds(nodes) \/ toId \notin NodeIds(nodes))) =>
         LET r == addEdgeById(nodes, edges, fromId, toId)
         IN r.err /\ r.edges = edges

C5_Theorem ==
  \A row \in DOMAIN edges :
    row.from_id \in NodeIds(nodes) /\ row.to_id \in NodeIds(nodes)

C5_Witness ==
  /\ edges # EmptyBag
  /\ rejected

\* C6: a node that is visited stays a node and stays visited in every step
\* of the store.
C6_Theorem ==
  [][\A i \in NodeIds(nodes) :
       nodes[i].visited => (i \in NodeIds(nodes') /\ nodes'[i].visited)]_vars

C6_Witness ==
  \E i \in NodeIds(nodes) :
    /\ nodes[i].visited
    /\ nodes[i].nsfw # NULL
    /\ Len(nodes) = 2
    /\ edges # EmptyBag
    /\ multis # EmptyBag

\* the name of the unvisited node that was inserted first
OldestUnvisited(ns) ==
  ns[CHOOSE i \in Unvisited(ns) : \A j \in Unvisited(ns) : i <= j].subreddit

\* C7: whatever the frontier hands out in a state names a node that is
\* unvisited in that state: the row getNextUnvisited returns, the item a
\* pull of the generator yields, and the item a step of the generator
\* has just yielded.
C7_YieldsUnvisited ==
  LET row == getNextUnvisited(nodes, tieOrder)
      item == getUnvisitedGenerator(nodes, tieOrder)
  IN /\ row.found => IsUnvisitedName(nodes, row.subreddit)
     /\ ~item.done => IsUnvisitedName(nodes, item.value)

C7_Theorem ==
  /\ []C7_YieldsUnvisited
  /\ [][(gen' # gen /\ gen'.pc = "suspended") => IsUnvisitedName(nodes', gen'.value)]_vars

C7_Witness ==
  /\ gen.pc = "suspended"
  /\ IsUnvisitedName(nodes, gen.value)
  /\ \E i \in NodeIds(nodes) : nodes[i].visited /\ nodes[i].added_at = 0
  /\ now = 1

\* C8: getNextUnvisited returns the unvisited node that was inserted first,
\* also among nodes inserted in the same tick, and returns none exactly
\* when no node is unvisited.
C8_Claim ==
  LET row == getNextUnvisited(nodes, tieOrder)
  IN /\ row.found <=> Unvisited(nodes) # {}
     /\ row.found => row.subreddit = OldestUnvisited(nodes)

\* C9: a drain yields no item twice, and when it has ended it has yielded
\* the names of all seeded nodes in the order of their insertion and no
\* node is left unvisited.
C9_Claim ==
  /\ \A i, j \in 1..Len(run.yielded) : run.yielded[i] = run.yielded[j] => i = j
  /\ run.pc = "done" =>
       /\ run.yielded = [i \in NodeIds(nodes) |-> nodes[i].subreddit]
       /\ run.count = 0

\* C10: the first pull of a fresh sequence yields the item that was pulled
\* last, whenever that item has not become visited since.
C10_Claim ==
  [][(/\ gen.pc = "start"
      /\ gen'.pc # "start"
      /\ pulled.set
      /\ IsUnvisitedName(nodes, pulled.subreddit))
     => (gen'.pc = "suspended" /\ gen'.value = pulled.subreddit)]_vars

\* the values a caller may pass as metadata
AnyNsfw == BOOLEAN

AnySubscribers == {0, 7}

\* C13: updateMeta creates no node; called with a non-empty name whose
\* normalised form has a node, it sets subscribers and nsfw of that node
\* together and leaves every other field and every other node as it was;
\* called with an empty name or a name without a node it changes nothing.
C13_Theorem ==
  \A subreddit \in Names, nsfw \in AnyNsfw, subscribers \in AnySubscribers :
    LET after == updateMeta(nodes, subreddit, nsfw, subscribers)
        k == SelectId(nodes, Normalize(subreddit))
    IN /\ Len(after) = Len(nodes)
       /\ IF Truthy(subreddit) /\ k # 0
          THEN /\ after[k] = [nodes[k] EXCEPT !.nsfw = Some(nsfw),
                                              !.subscribers = Some(subscribers)]
               /\ \A i \in NodeIds(nodes) \ {k} : after[i] = nodes[i]
          ELSE after = nodes

C13_Witness ==
  /\ \E i \in NodeIds(nodes) : nodes[i].nsfw # NULL /\ nodes[i].subreddit # <<>>
  /\ \E j \in NodeIds(nodes) : nodes[j].nsfw = NULL /\ nodes[j].subreddit = <<>>

\* C14: in every state of the store, subscribers of a node is unset exactly
\* when its nsfw flag is unset.
C14_Theorem ==
  \A i \in NodeIds(nodes) : (nodes[i].subscribers = NULL) <=> (nodes[i].nsfw = NULL)

C14_Witness ==
  /\ \E i \in NodeIds(nodes) : nodes[i].subscribers # NULL /\ nodes[i].nsfw # NULL
  /\ \E j \in NodeIds(nodes) : nodes[j].subscribers = NULL /\ nodes[j].visited

C16_Theorem ==
  [][/\ \A i \in NodeIds(nodes) :
          /\ i \in NodeIds(nodes')
          /\ nodes'[i].id = nodes[i].id
          /\ nodes'[i].subreddit = nodes[i].subreddit
     /\ \A row \in DOMAIN edges : CopiesIn(row, edges') >= CopiesIn(row, edges)]_vars

C16_Witness ==
  /\ Len(nodes) = 2
  /\ \A i \in NodeIds(nodes) : nodes[i].visited /\ nodes[i].nsfw # NULL
  /\ BagCardinality(edges) = 1
  /\ BagCardinality(multis) = 1

\* addToQueue on each name in turn, the ids collected in the order of the
\* names
RECURSIVE UpsertEach(_, _, _)
UpsertEach(ns, subreddits, t) ==
  IF subreddits = <<>> THEN [nodes |-> ns, ret |-> <<>>]
  ELSE LET first == addToQueue(ns, Head(subreddits), t)
           rest == UpsertEach(first.nodes, Tail(subreddits), t)
       IN [nodes |-> rest.nodes, ret |-> <<first.ret>> \o rest.ret]

\* C17: addMultipleToQueue leaves the store that addToQueue on each name in
\* turn leaves and returns the same ids: one id per name of the batch, the
\* i-th being the id of the node of the i-th name.
C17_Claim ==
  \A subreddits \in Batches(BatchNames) :
    LET bulk == addMultipleToQueue(nodes, subreddits, now)
        each == UpsertEach(nodes, subreddits, now)
    IN /\ bulk.nodes = each.nodes
       /\ bulk.ret = each.ret
       /\ Len(bulk.ret) = Len(subreddits)
       /\ \A i \in 1..Len(subreddits) :
            bulk.ret[i] = SelectId(bulk.nodes, Normalize(subreddits[i]))

\* C18 (as claimed): after setMulti of any pair, once or twice, the table
\* holds exactly one row of the pair and the rows of other pairs as before.
C18_Claim ==
  \A multiName \in GroupNames, subredditName \in MemberNames :
    LET row == MultiRow(toLowerCase(multiName), Normalize(subredditName))
        once == setMulti(multis, multiName, subredditName)
        twice == setMulti(once, multiName, subredditName)
    IN /\ CopiesIn(row, once) = 1
       /\ twice = once
       /\ \A r \in (DOMAIN multis \cup DOMAIN once) \ {row} :
            CopiesIn(r, once) = CopiesIn(r, multis)

\* C18 (amended): the table never holds two rows of one pair; setMulti with
\* a non-empty group name and a non-empty node name leaves exactly one row
\* of the (lower-cased, normalised) pair however often it is called and the
\* other rows as before; with an empty name it stores nothing.
C18_Theorem ==
  /\ \A r \in DOMAIN multis : CopiesIn(r, multis) = 1
  /\ \A multiName \in GroupNames, subredditName \in MemberNames :
       LET row == MultiRow(toLowerCase(multiName), Normalize(subredditName))
           once == setMulti(multis, multiName, subredditName)
           twice == setMulti(once, multiName, subredditName)
       IN IF Truthy(multiName) /\ Truthy(subredditName)
          THEN /\ CopiesIn(row, once) = 1
               /\ twice = once
               /\ \A r \in (DOMAIN multis \cup DOMAIN once) \ {row} :
                    CopiesIn(r, once) = CopiesIn(r, multis)
          ELSE once = multis

C18_Witness ==
  /\ BagCardinality(multis) = 3
  /\ \E r \in DOMAIN multis : r.multi_name = <<"m">> /\ r.subreddit_name = <<"a">>
  /\ \E r \in DOMAIN multis : r.multi_name = <<"m">> /\ r.subreddit_name = <<"b">>
  /\ \E r \in DOMAIN multis : r.multi_name = <<"n">> /\ r.subreddit_name = <<"a">>

\* C19: a name is listed as incomplete exactly when it is the name of a
\* node whose subscribers or nsfw is unset, whether the node is visited or
\* not.
C19_Theorem ==
  /\ \A i \in NodeIds(nodes) :
       (nodes[i].subreddit \in listIncomplete(nodes))
         <=> (nodes[i].subscribers = NULL \/ nodes[i].nsfw = NULL)
  /\ \A name \in listIncomplete(nodes) : SelectId(nodes, name) # 0

C19_Witness ==
  /\ \E i \in NodeIds(nodes) :
       nodes[i].visited /\ nodes[i].nsfw = NULL /\ nodes[i].subreddit \in listIncomplete(nodes)
  /\ \E j \in NodeIds(nodes) :
       ~nodes[j].visited /\ nodes[j].nsfw # NULL /\ nodes[j].subreddit \notin listIncomplete(nodes)

\* C12: in every state, a pull of the generator ends the sequence exactly
\* when no node is unvisited (getUnvisitedCount = 0), and yields a name
\* whenever some node is unvisited.
C12_Claim ==
  LET item == getUnvisitedGenerator(nodes, tieOrder)
  IN /\ item.done <=> getUnvisitedCount(nodes) = 0
     /\ Unvisited(nodes) # {} => (~item.done /\ IsUnvisitedName(nodes, item.value))

\* the names a run of processList has been handed
Yielded == { run.yielded[i] : i \in 1..Len(run.yielded) }

\* C11: when the sequence of a crawl has ended, every node that was
\* enqueued after the sequence was started and is still unvisited has been
\* yielded by a pull of that sequence.
C11_Claim ==
  (gen.pc = "done" /\ run.pc = "done") =>
    \A i \in NodeIds(nodes) :
      (i > run.started /\ ~nodes[i].visited) => nodes[i].subreddit \in Yielded

\* C20: no step of a healing pass changes the visited flag of a node, adds
\* a node or adds an edge.
C20_Claim ==
  [][(run.pc # "seed") =>
       /\ Len(nodes') = Len(nodes)
       /\ \A i \in NodeIds(nodes) : nodes'[i].visited = nodes[i].visited
       /\ edges' = edges]_vars

\* C21: an item for which the crawler returned null metadata leaves the
\* nodes as they were when it is crawled and is listed as incomplete as
\* long as its metadata is unset, and from an item with null metadata or
\* with no links left the loop never goes to its abort.
C21_Claim ==
  [][/\ (run.pc = "crawl" /\ run'.pc = "links" /\ run'.meta = NULL) =>
          /\ nodes' = nodes
          /\ \A i \in NodeIds(nodes') :
               (nodes'[i].subreddit = run'.subreddit /\ nodes'[i].nsfw = NULL)
                 => run'.subreddit \in listIncomplete(nodes')
     /\ (run.pc = "links" /\ (run.meta = NULL \/ run.links = <<>>)) =>
          run'.pc # "failed"]_vars

\* the to_ids of the stored edges that leave the node id
StoredLinks(es, id) == { row.to_id : row \in { e \in DOMAIN es : e.from_id = id } }

\* C22: an export gives one record per stored node, in ascending order of
\* id, the linksTo of a record holding exactly the to_ids of the stored
\* edges from its node; two exports of the same store are equal.
C22_Claim ==
  fn.pc = "exported" =>
    LET ns == fn.of[1]
        es == fn.of[2]
    IN /\ ~fn.err
       /\ Len(fn.nodes) = Len(ns)
       /\ \A i \in 1..Len(fn.nodes) : fn.nodes[i].id = i
       /\ \A i \in 1..Len(fn.nodes) :
            /\ { fn.nodes[i].linksTo[k] : k \in 1..Len(fn.nodes[i].linksTo) }
                 = StoredLinks(es, fn.nodes[i].id)
            /\ Len(fn.nodes[i].linksTo) = Cardinality(StoredLinks(es, fn.nodes[i].id))
       /\ \A b \in { fn.before[k] : k \in 1..Len(fn.before) } :
            b.of = fn.of => (b.err = fn.err /\ b.nodes = fn.nodes)

\* C23: an export of a store that holds a node without metadata succeeds,
\* and the record of such a node carries null for the missing values.
C23_Claim ==
  (fn.pc = "exported" /\ \E i \in NodeIds(fn.of[1]) : fn.of[1][i].nsfw = NULL) =>
    /\ ~fn.err
    /\ \A k \in 1..Len(fn.nodes) :
         fn.of[1][fn.nodes[k].id].nsfw = NULL =>
           (fn.nodes[k].nsfw = NULL /\ fn.nodes[k].subscribers = NULL)

\* the snapshot has an edge from its i-th node to its j-th node
Linked(nodeData, i, j) ==
  \E k \in 1..Len(nodeData[i].linksTo) : nodeData[i].linksTo[k] = nodeData[j].id

\* the nodes connected to a node of S by edges taken in either direction
RECURSIVE Reach(_, _)
Reach(nodeData, S) ==
  LET next == S \cup { j \in 1..Len(nodeData) :
                         \E i \in S : Linked(nodeData, i, j) \/ Linked(nodeData, j, i) }
  IN IF next = S THEN S ELSE Reach(nodeData, next)

\* the communities that list the name as a member
CommunitiesOf(communities, name) ==
  { c \in 1..Len(communities) :
      \E m \in 1..Len(communities[c].members) : communities[c].members[m].subreddit = name }

\* the position in the snapshot of the first node of a community
FirstOf(nodeData, community) ==
  CHOOSE i \in 1..Len(nodeData) :
    /\ \E m \in 1..Len(community.members) : community.members[m].subreddit = nodeData[i].subreddit
    /\ \A j \in 1..(i - 1) :
         \A m \in 1..Len(community.members) : community.members[m].subreddit # nodeData[j].subreddit

EdgeLess(nodeData, i) ==
  \A j \in 1..Len(nodeData) : ~Linked(nodeData, i, j) /\ ~Linked(nodeData, j, i)

\* C24: every node of the snapshot is a member of exactly one community,
\* once, and two nodes are in one community exactly when a path of edges
\* taken in either direction connects them.
C24_Claim ==
  fn.pc = "clusters" =>
    LET d == fn.nodeData
        cs == fn.communities
    IN /\ \A i \in 1..Len(d) : Cardinality(CommunitiesOf(cs, d[i].subreddit)) = 1
       /\ \A c \in 1..Len(cs) : \A m, n \in 1..Len(cs[c].members) :
            cs[c].members[m] = cs[c].members[n] => m = n
       /\ \A i, j \in 1..Len(d) :
            (CommunitiesOf(cs, d[i].subreddit) = CommunitiesOf(cs, d[j].subreddit))
              <=> (j \in Reach(d, {i}))

\* C25: the communities come in descending order of their member count,
\* and of two communities of one size the one whose first node stands
\* earlier in the snapshot comes first.
C25_Theorem ==
  fn.pc = "clusters" =>
    LET d == fn.nodeData
        cs == fn.communities
    IN \A p, q \in 1..Len(cs) :
         p < q =>
           \/ Len(cs[p].members) > Len(cs[q].members)
           \/ /\ Len(cs[p].members) = Len(cs[q].members)
              /\ FirstOf(d, cs[p]) < FirstOf(d, cs[q])

C25_Witness ==
  /\ fn.pc = "clusters"
  /\ Len(fn.communities) = 3
  /\ Len(fn.communities[1].members) = 2
  /\ Len(fn.communities[2].members) = 1
  /\ FirstOf(fn.nodeData, fn.communities[2]) < FirstOf(fn.nodeData, fn.communities[1])
  /\ FirstOf(fn.nodeData, fn.communities[1]) < FirstOf(fn.nodeData, fn.communities[3])

C27_Claim ==
  fn.pc = "clusters" =>
    LET d == fn.nodeData
    IN \A i \in 1..Len(d) :
         fn.stats[d[i].id].totalDegree
           = Cardinality({ j \in 1..Len(d) : Linked(d, i, j) })
               + Cardinality({ j \in 1..Len(d) : Linked(d, j, i) })

\* C28: a node without edges is the only member and the hub of exactly one
\* community, and the empty snapshot has no community.
C28_Theorem ==
  fn.pc = "clusters" =>
    LET d == fn.nodeData
        cs == fn.communities
    IN /\ d = <<>> => cs = <<>>
       /\ \A i \in 1..Len(d) :
            EdgeLess(d, i) =>
              /\ Cardinality(CommunitiesOf(cs, d[i].subreddit)) = 1
              /\ \A c \in CommunitiesOf(cs, d[i].subreddit) :
                   /\ cs[c].members = <<[id |-> d[i].id, subreddit |-> d[i].subreddit]>>
                   /\ cs[c].name = [id |-> d[i].id, subreddit |-> d[i].subreddit]

C28_Witness ==
  /\ fn.pc = "clusters"
  /\ Len(fn.nodeData) = 4
  /\ \E i \in 1..4 : EdgeLess(fn.nodeData, i) /\ fn.nodeData[i].subreddit = <<>>
  /\ \E i \in 1..4 : ~EdgeLess(fn.nodeData, i)
  /\ Len(fn.communities) = 2

\* the ids of the nodes the anonymizer retained
RetainedIds == { fn.filtered[p].id : p \in 1..Len(fn.filtered) }

\* C29: the relabeling is a bijection from exactly the retained original
\* ids onto 0..k-1: when the file is written for a retained set of size k,
\* the map is defined on exactly the retained ids, no two of them get one
\* new id, and the ids of the emitted nodes are exactly 0..k-1, one node
\* each, whatever the shuffle chose
C29_Theorem ==
  fn.pc = "written" =>
    LET k == Len(fn.filtered)
    IN /\ Cardinality(RetainedIds) = k
       /\ DOMAIN fn.mangledIDs = RetainedIds
       /\ \A u, v \in RetainedIds : fn.mangledIDs[u] = fn.mangledIDs[v] => u = v
       /\ { fn.mangledIDs[u] : u \in RetainedIds } = 0..(k - 1)
       /\ Len(fn.out) = k
       /\ \A p \in 1..k : fn.out[p].id = p - 1

\* C29: three nodes are retained and the shuffle moved them: the first
\* retained node got the last new id, the last one the first
C29_Witness ==
  /\ fn.pc = "written"
  /\ Len(fn.filtered) = 3
  /\ fn.mangledIDs[fn.filtered[1].id] = 2
  /\ fn.mangledIDs[fn.filtered[3].id] = 0
  /\ Len(fn.out) = 3

\* the retained node an emitted record was made from
OriginalOf(record) ==
  CHOOSE p \in 1..Len(fn.filtered) : fn.mangledIDs[fn.filtered[p].id] = record.id

\* the links of a retained node whose target is retained, in order
RetainedLinks(node) == SelectSeq(node.linksTo, LAMBDA t : t \in RetainedIds)

\* C30: every entry of every emitted linksTo is the new id of a retained
\* node, a value in 0..k-1, and a link whose target is outside the retained
\* set is omitted: an emitted record has one entry for each link of its
\* node to a retained target, the new id of that target, and nothing else
C30_Theorem ==
  fn.pc = "written" =>
    \A r \in 1..Len(fn.out) :
      LET node == fn.filtered[OriginalOf(fn.out[r])]
          kept == RetainedLinks(node)
      IN /\ \A p \in 1..Len(fn.out[r].linksTo) :
              /\ fn.out[r].linksTo[p] \in 0..(Len(fn.filtered) - 1)
              /\ \E u \in RetainedIds : fn.mangledIDs[u] = fn.out[r].linksTo[p]
         /\ Len(fn.out[r].linksTo) = Len(kept)
         /\ \A p \in 1..Len(kept) : fn.out[r].linksTo[p] = fn.mangledIDs[kept[p]]

\* C30: the script of mangle.ts wrote a record of a retained node that has
\* a link to a retained node and a link to a node that is not retained,
\* and the record has the one link
C30_Witness ==
  /\ fn.pc = "written"
  /\ fn.script = "mangle"
  /\ \E r \in 1..Len(fn.out) :
       LET node == fn.filtered[OriginalOf(fn.out[r])]
       IN /\ Len(node.linksTo) = 2
          /\ Len(RetainedLinks(node)) = 1
          /\ Len(fn.out[r].linksTo) = 1
          /\ fn.mangledIDs[node.id] # node.id

\* how often x occurs in a sequence
Count(seq, x) == Cardinality({ p \in 1..Len(seq) : seq[p] = x })

\* the emitted record of a retained id
RecordOf(u) == fn.out[CHOOSE r \in 1..Len(fn.out) : fn.out[r].id = fn.mangledIDs[u]]

\* C31: anonymization preserves the retained subgraph: with f the
\* relabeling, for all retained nodes u and v the record of f(u) lists f(v)
\* as often as the node u lists v, so u links to v if and only if f(u)
\* links to f(v), with the same multiplicity
C31_Theorem ==
  fn.pc = "written" =>
    \A p, q \in 1..Len(fn.filtered) :
      LET u == fn.filtered[p]
          v == fn.filtered[q]
      IN Count(RecordOf(u.id).linksTo, fn.mangledIDs[v.id]) = Count(u.linksTo, v.id)

\* C31: three nodes are retained and relabelled out of their order; one
\* of them links to both others, and one has no link to another
C31_Witness ==
  /\ fn.pc = "written"
  /\ Len(fn.filtered) = 3
  /\ fn.mangledIDs[fn.filtered[1].id] # 0
  /\ \E p \in 1..3 :
       /\ Len(RetainedLinks(fn.filtered[p])) = 2
       /\ Len(RecordOf(fn.filtered[p].id).linksTo) = 2
  /\ \E p, q \in 1..3 :
       /\ p # q
       /\ Count(fn.filtered[p].linksTo, fn.filtered[q].id) = 0
       /\ Count(RecordOf(fn.filtered[p].id).linksTo, fn.mangledIDs[fn.filtered[q].id]) = 0

\* the node at position i of the snapshot has a record in the output
Emitted(i) ==
  /\ fn.nodeData[i].id \in DOMAIN fn.mangledIDs
  /\ \E r \in 1..Len(fn.out) : fn.out[r].id = fn.mangledIDs[fn.nodeData[i].id]

\* the node at position i is a member of a community of more than t members
InLargeCommunity(i, t) ==
  LET clusters == analyzeSubredditClusters(fn.nodeData)
  IN \E c \in 1..Len(clusters) :
       /\ Len(clusters[c].members) > t
       /\ \E m \in 1..Len(clusters[c].members) :
            clusters[c].members[m].id = fn.nodeData[i].id

\* C32: threshold selection retains exactly the members of the communities
\* whose size exceeds the threshold: after the script of mangle.ts has
\* written, a node of the snapshot has a record in the output if and only
\* if it is a member of a community with more members than the threshold
C32_Theorem ==
  (fn.pc = "written" /\ fn.script = "mangle") =>
    /\ Len(fn.out) = Cardinality({ i \in 1..Len(fn.nodeData) : Emitted(i) })
    /\ \A i \in 1..Len(fn.nodeData) : Emitted(i) <=> InLargeCommunity(i, fn.threshold)

\* C32: with threshold 1 a snapshot of a community of two members and a
\* community of one member: the two are emitted, the one is not
C32_Witness ==
  /\ fn.pc = "written"
  /\ fn.script = "mangle"
  /\ fn.threshold = 1
  /\ Len(fn.nodeData) = 3
  /\ Len(fn.out) = 2
  /\ \E i \in 1..3 : ~Emitted(i) /\ ~InLargeCommunity(i, 1)

\* C33: the anonymizer never writes an empty output file: when the
\* selection retains no node, the run does not write
C33_Claim == fn.pc = "written" => fn.out # <<>>

\* the snapshots with the ids, metadata and links of the snapshot given and
\* other names
Renamed(nodeData) ==
  { [i \in 1..Len(nodeData) |-> [nodeData[i] EXCEPT !.subreddit = f[i]]] :
      f \in { g \in [1..Len(nodeData) -> MangleNames] :
                \A i, j \in 1..Len(nodeData) : g[i] = g[j] => i = j } }

\* C34: the emitted records do not depend on the names of the nodes: a
\* snapshot with the same ids and links and other names gives, for the
\* same threshold and the same outcome of the shuffle, the same output
C34_Claim ==
  (fn.pc = "written" /\ fn.script = "mangle") =>
    \A other \in Renamed(fn.nodeData) :
      LET filtered == retained_mangle(other, fn.threshold)
      IN /\ Len(filtered) = Len(fn.filtered)
         /\ written_mangle(filtered, fn.choice).out = fn.out

\* consumer w has pulled an item and has not marked it yet
Holds(w) == run.pc = "run" /\ run.of[w].pc \in {"crawl", "links"}

\* C35: the pull and the mark are not atomic as a pair: a pull changes
\* nothing in the store and yields an unvisited item whether or not the
\* other consumer holds it, so an item a consumer holds stays on offer
\* until one of the consumers marks it
C35_Theorem ==
  [][\A w \in Consumers :
       (run.pc = "run" /\ run.of[w].pc = "pull" /\ run'.of[w].pc = "crawl") =>
         /\ nodes' = nodes
         /\ IsUnvisitedName(nodes, run'.of[w].subreddit)
         /\ \A v \in Consumers \ {w} :
              (Holds(v) /\ Cardinality(Unvisited(nodes)) = 1
                 /\ IsUnvisitedName(nodes, run.of[v].subreddit)) =>
                run'.of[w].subreddit = run.of[v].subreddit]_vars

\* C35: both consumers have pulled the same item and neither has marked
\* it: the item is unvisited and in the hands of both
C35_Witness ==
  /\ Holds(1)
  /\ Holds(2)
  /\ run.of[1].subreddit = run.of[2].subreddit
  /\ IsUnvisitedName(nodes, run.of[1].subreddit)

\* the store holds the edge between the nodes the two names address
HasEdge(ns, es, from, to) ==
  LET fromId == SelectId(ns, Normalize(from))
      toId == SelectId(ns, Normalize(to))
  IN fromId # 0 /\ toId # 0 /\ BagIn(EdgeRow(fromId, toId), es)

\* the link names the item itself
SelfLink(from, to) == Normalize(from) = Normalize(to)

\* the steps of the crawl loop come in the order of processList: metadata
\* is written in the extraction step only, edges in the link steps only,
\* visited flags in the marking step only, and an item is pulled only
\* after the marking step of the one before
LoopOrder ==
  /\ (\E i \in NodeIds(nodes) : nodes'[i].nsfw # nodes[i].nsfw)
       => (run.pc = "crawl" /\ run'.pc = "links")
  /\ edges' # edges => (run.pc = "links" /\ run.links # <<>>)
  /\ (\E i \in NodeIds(nodes) : nodes'[i].visited # nodes[i].visited)
       => (run.pc = "links" /\ run.links = <<>> /\ run'.pc = "pull")
  /\ run'.pc = "crawl" => run.pc \in {"pull", "crawl"}
  /\ \A row \in BagToSet(edges) : BagIn(row, edges')

\* C36, as stated: when the loop marks an item visited, every link
\* discovered for it in that pass is stored as an edge
C36_Claim ==
  [][(run.pc = "links" /\ run'.pc = "pull") =>
       \A k \in 1..Len(run.found) :
         HasEdge(nodes', edges', run.subreddit, run.found[k])]_vars

\* C36, amended: the steps of the loop come in the order of processList,
\* and when the loop marks an item visited, every link discovered for it
\* in that pass that does not name the item itself is stored as an edge;
\* a link of an item to itself is skipped by addEdgeById
C36_Theorem ==
  [][/\ LoopOrder
     /\ (run.pc = "links" /\ run'.pc = "pull") =>
          \A k \in 1..Len(run.found) :
            \/ SelfLink(run.subreddit, run.found[k])
            \/ HasEdge(nodes', edges', run.subreddit, run.found[k])]_vars

\* C36: the loop has marked an item for which a link to another node was
\* discovered: the node is visited and the edge is stored
C36_Witness ==
  /\ run.pc = "pull"
  /\ run.count = 1
  /\ run.found # <<>>
  /\ ~SelfLink(run.subreddit, run.found[1])
  /\ HasEdge(nodes, edges, run.subreddit, run.found[1])
  /\ \E i \in NodeIds(nodes) :
       nodes[i].subreddit = Normalize(run.subreddit) /\ nodes[i].visited

\* what C37 compares of a store: the nodes with their metadata and
\* visited flags, and the edges
Content(st) ==
  [nodes |-> [i \in NodeIds(st.nodes) |->
                [id |-> st.nodes[i].id, subreddit |-> st.nodes[i].subreddit,
                 visited |-> st.nodes[i].visited,
                 subscribers |-> st.nodes[i].subscribers, nsfw |-> st.nodes[i].nsfw]],
   edges |-> st.edges]

\* C37: crash and resume is equivalent to an uninterrupted run: with one
\* extractor, the run stopped after any number of store operations and
\* started again with a fresh generator ends with the nodes, edges,
\* metadata and visited flags of the run that was never interrupted
C37_Claim ==
  (fn.pc = "resumed" /\ fn.full.status # "stopped" /\ fn.resumed.status # "stopped") =>
    Content(fn.resumed) = Content(fn.full)

\* the loop of the consumer has ended: the generator is done or addEdge threw
Ended(w) == run.pc = "run" /\ run.of[w].pc \in {"done", "failed"}

\* the next link of the consumer does not fit the bounds of the model
Blocked(w) ==
  /\ run.pc = "run"
  /\ run.of[w].pc = "links"
  /\ run.of[w].links # <<>>
  /\ LET queued == addToQueue(nodes, Head(run.of[w].links), now)
         edge == addEdge(queued.nodes, edges, run.of[w].subreddit, Head(run.of[w].links))
     IN Len(queued.nodes) > MaxNodes \/ BagCardinality(edge.edges) > MaxEdges

\* C38: the crawl terminates: with the names the extractor returns taken
\* from a finite set, the loop that pulls from the generator and marks
\* each pulled item visited eventually reaches the end of the sequence
C38_Claim == <>(Ended(1) \/ Blocked(1))

\* C39: inside the crawl loop an edge insertion never meets a missing
\* endpoint: when the loop is about to handle a link of the item it was
\* handed, after the addToQueue of the link both id lookups of addEdge
\* find a node
C39_Claim ==
  (run.pc = "links" /\ run.links # <<>>) =>
    LET queued == addToQueue(nodes, Head(run.links), now)
    IN /\ ~getSubredditId(queued.nodes, run.subreddit).err
       /\ ~getSubredditId(queued.nodes, Head(run.links)).err

\* C40: every stored node name is non-empty, unique and in normal form,
\* and a name the frontier yields addresses, in the by-name operations,
\* the node that was yielded
C40_Claim ==
  /\ \A i \in NodeIds(nodes) :
       /\ nodes[i].subreddit # <<>>
       /\ Normalize(nodes[i].subreddit) = nodes[i].subreddit
       /\ \A j \in NodeIds(nodes) : nodes[j].subreddit = nodes[i].subreddit => j = i
  /\ LET row == getNextUnvisited(nodes, tieOrder)
     IN row.found =>
          /\ getSubredditId(nodes, row.subreddit).id = SelectId(nodes, row.subreddit)
          /\ ~IsUnvisitedName(markVisited(nodes, row.subreddit), row.subreddit)

====
